---- MODULE Spec2Model ----
(***************************************************************************)
(* A model of soundboard-snag.py: the filename normaliser, the markup      *)
(* extractor, the per-board download state machine (SoundboardSnag.snag),  *)
(* the paginated board search (search_boards) and the search-and-download  *)
(* loop of main.                                                           *)
(*                                                                         *)
(* Text is modelled as a sequence of characters, each character a string.  *)
(* A control character is written as a token ("^A" is \x01, "DEL" \x7f).   *)
(***************************************************************************)
EXTENDS Integers, Sequences, FiniteSets, TLC

----------------------------------------------------------------------------
(* Characters and the str methods the normaliser uses.                     *)

LowerSeq == <<"a","b","c","d","e","f","g","h","i","j","k","l","m",
              "n","o","p","q","r","s","t","u","v","w","x","y","z">>
UpperSeq == <<"A","B","C","D","E","F","G","H","I","J","K","L","M",
              "N","O","P","Q","R","S","T","U","V","W","X","Y","Z">>
LowerCh == {LowerSeq[k] : k \in DOMAIN LowerSeq}
UpperCh == {UpperSeq[k] : k \in DOMAIN UpperSeq}
DigitCh == {"0","1","2","3","4","5","6","7","8","9"}
HexCh == DigitCh \cup {"a","b","c","d","e","f","A","B","C","D","E","F"}
\* \s of a str pattern, and what str.strip() strips
SpaceCh == {" ", "\t", "\n", "\r", "^K", "^L", "^\\", "^]", "^^", "^_"}
\* [\x00-\x1f\x7f]
ControlCh == {"^@", "^A", "\t", "\n", "\r", "^K", "^L", "^\\", "^]", "^^", "^_", "DEL"}
\* [<>:"/\\|?*]
InvalidCh == {"<", ">", ":", "\"", "/", "\\", "|", "?", "*"}

ToUpper(c) == IF c \in LowerCh
              THEN UpperSeq[CHOOSE k \in DOMAIN LowerSeq : LowerSeq[k] = c]
              ELSE c
ToLower(c) == IF c \in UpperCh
              THEN LowerSeq[CHOOSE k \in DOMAIN UpperSeq : UpperSeq[k] = c]
              ELSE c

Chars(s) == {s[k] : k \in DOMAIN s}
Drop(s, n) == SubSeq(s, n + 1, Len(s))
Take(s, n) == SubSeq(s, 1, n)
StartsWith(s, p) == Len(s) >= Len(p) /\ Take(s, Len(p)) = p

\* str.upper()
Upper(s) == [k \in DOMAIN s |-> ToUpper(s[k])]
\* str.islower(): a cased character, and no uppercase one
IsLower(s) == Chars(s) \cap LowerCh # {} /\ Chars(s) \cap UpperCh = {}
\* str.isupper()
IsUpper(s) == Chars(s) \cap UpperCh # {} /\ Chars(s) \cap LowerCh = {}
\* str.title(): a cased character is upper-cased after an uncased one (or at
\* the start) and lower-cased after a cased one
TitleCase(s) ==
  [k \in DOMAIN s |->
     IF k > 1 /\ s[k - 1] \in (LowerCh \cup UpperCh)
     THEN ToLower(s[k]) ELSE ToUpper(s[k])]

\* the length of the longest prefix of s made of characters of set
RECURSIVE RunLen(_, _)
RunLen(s, set) == IF s # <<>> /\ s[1] \in set THEN 1 + RunLen(Tail(s), set) ELSE 0

\* str.lstrip() / str.rstrip(chars) / str.strip()
LStrip(s, set) == Drop(s, RunLen(s, set))
RECURSIVE RStrip(_, _)
RStrip(s, set) == IF s # <<>> /\ s[Len(s)] \in set
                  THEN RStrip(Take(s, Len(s) - 1), set) ELSE s
Strip(s) == RStrip(LStrip(s, SpaceCh), SpaceCh)

\* the greatest index of character c in s, 0 when absent (str.rfind + 1)
RECURSIVE RFind(_, _)
RFind(s, c) == IF s = <<>> THEN 0
               ELSE IF s[Len(s)] = c THEN Len(s)
               ELSE RFind(Take(s, Len(s) - 1), c)

----------------------------------------------------------------------------
(* html.unescape, as far as _sanitize_filename's inputs exercise it: the   *)
(* character references &name; &name &#dec; &#xhex; of the standard        *)
(* library's table, here the four names NamedRefs holds.                   *)

Ascii == <<" ","!","\"","#","$","%","&","'","(",")","*","+",",","-",".","/",
           "0","1","2","3","4","5","6","7","8","9",":",";","<","=",">","?",
           "@","A","B","C","D","E","F","G","H","I","J","K","L","M","N","O",
           "P","Q","R","S","T","U","V","W","X","Y","Z","[","\\","]","^","_",
           "GRAVE","a","b","c","d","e","f","g","h","i","j","k","l","m","n","o",
           "p","q","r","s","t","u","v","w","x","y","z","{","|","}","~">>

HexSeq == <<"0","1","2","3","4","5","6","7","8","9","a","b","c","d","e","f">>
HexVal(c) == (CHOOSE k \in DOMAIN HexSeq : HexSeq[k] = ToLower(c)) - 1

\* int(digits, base)
RECURSIVE ToInt(_, _)
ToInt(ds, base) == IF ds = <<>> THEN 0
                   ELSE ToInt(Take(ds, Len(ds) - 1), base) * base + HexVal(ds[Len(ds)])

\* _replace_charref, numeric branch: the text a code point is replaced by
ChrOf(num) ==
  CASE num \in 32..126 -> <<Ascii[num - 31]>>
    [] num = 9 -> <<"\t">>
    [] num = 10 -> <<"\n">>
    [] num = 12 -> <<"^L">>
    [] num = 13 -> <<"\r">>
    [] num = 0 -> <<"U+FFFD">>
    [] num \in (1..8) \cup {11} \cup (14..31) \cup (127..159) -> <<>>
    [] OTHER -> <<"U+X">>

NamedRefs == {<<"a","m","p">>, <<"l","t">>, <<"g","t">>, <<"q","u","o","t">>}
NamedChar(n) == CASE n = <<"a","m","p">> -> "&"
                  [] n = <<"l","t">> -> "<"
                  [] n = <<"g","t">> -> ">"
                  [] n = <<"q","u","o","t">> -> "\""
\* the table _html5 holds every name with and without its semicolon
InHtml5(s) == s \in NamedRefs
              \/ (s # <<>> /\ s[Len(s)] = ";" /\ Take(s, Len(s) - 1) \in NamedRefs)
Html5(s) == IF s \in NamedRefs THEN NamedChar(s) ELSE NamedChar(Take(s, Len(s) - 1))

\* _replace_charref, named branch: the longest prefix of s the table holds
RECURSIVE NamedPrefix(_, _)
NamedPrefix(s, x) ==
  IF x < 2 THEN <<"&">> \o s
  ELSE IF InHtml5(Take(s, x)) THEN <<Html5(Take(s, x))>> \o Drop(s, x)
  ELSE NamedPrefix(s, x - 1)
ReplaceNamed(s) == IF InHtml5(s) THEN <<Html5(s)>> ELSE NamedPrefix(s, Len(s) - 1)

NameStop == {"\t", "\n", "^L", " ", "<", "&", "#", ";"}
Min(a, b) == IF a < b THEN a ELSE b
Max(a, b) == IF a > b THEN a ELSE b
\* 1 when s starts with a semicolon (the ;? of the pattern)
Semi(s) == IF s # <<>> /\ s[1] = ";" THEN 1 ELSE 0

\* html.unescape: _charref.sub(_replace_charref, s), left to right
RECURSIVE Unescape(_)
Unescape(s) ==
  IF s = <<>> THEN <<>>
  ELSE IF s[1] # "&" THEN <<s[1]>> \o Unescape(Tail(s))
  ELSE LET r == Tail(s)
           nd == RunLen(Drop(r, 1), DigitCh)
           nx == RunLen(Drop(r, 2), HexCh)
           nn == Min(RunLen(r, Chars(r) \ NameStop), 32)
       IN  IF r # <<>> /\ r[1] = "#" /\ nd > 0
           THEN ChrOf(ToInt(SubSeq(r, 2, 1 + nd), 10))
                  \o Unescape(Drop(r, 1 + nd + Semi(Drop(r, 1 + nd))))
           ELSE IF Len(r) >= 2 /\ r[1] = "#" /\ r[2] \in {"x", "X"} /\ nx > 0
           THEN ChrOf(ToInt(SubSeq(r, 3, 2 + nx), 16))
                  \o Unescape(Drop(r, 2 + nx + Semi(Drop(r, 2 + nx))))
           ELSE IF nn > 0
           THEN ReplaceNamed(Take(r, nn + Semi(Drop(r, nn))))
                  \o Unescape(Drop(r, nn + Semi(Drop(r, nn))))
           ELSE <<"&">> \o Unescape(r)

----------------------------------------------------------------------------
(* SoundboardSnag._sanitize_filename                                       *)

WINDOWS_RESERVED_NAMES ==
  {<<"C","O","N">>, <<"P","R","N">>, <<"A","U","X">>, <<"N","U","L">>}
  \cup {<<"C","O","M">> \o <<d>> : d \in DigitCh \ {"0"}}
  \cup {<<"L","P","T">> \o <<d>> : d \in DigitCh \ {"0"}}

Mp3 == <<".","m","p","3">>
\* f"audio_{sound_id}.mp3"
AudioName(sound_id) == <<"a","u","d","i","o","_">> \o sound_id \o Mp3

\* \d{6}-[a-f0-9]{8}-[a-f0-9]{4}-[a-f0-9]{4}-[a-f0-9]{4}-[a-f0-9]{12}, re.IGNORECASE
UuidDashes == {7, 16, 21, 26, 31}
UuidLen == 43
MatchesUuid(s) ==
  /\ Len(s) >= UuidLen
  /\ \A k \in 1..UuidLen :
       IF k \in UuidDashes THEN s[k] = "-"
       ELSE IF k < 7 THEN s[k] \in DigitCh
       ELSE s[k] \in HexCh
RECURSIVE RemoveUuid(_)
RemoveUuid(s) == IF s = <<>> THEN <<>>
                 ELSE IF MatchesUuid(s) THEN RemoveUuid(Drop(s, UuidLen))
                 ELSE <<s[1]>> \o RemoveUuid(Tail(s))

\* cleaned.replace('_', ' ')
ReplaceUnderscore(s) == [k \in DOMAIN s |-> IF s[k] = "_" THEN " " ELSE s[k]]
\* cleaned.replace('--', '-'): one pass, left to right, not repeated
RECURSIVE ReplaceDashDash(_)
ReplaceDashDash(s) ==
  IF s = <<>> THEN <<>>
  ELSE IF Len(s) >= 2 /\ s[1] = "-" /\ s[2] = "-"
  THEN <<"-">> \o ReplaceDashDash(Drop(s, 2))
  ELSE <<s[1]>> \o ReplaceDashDash(Tail(s))
\* re.sub(r'\s+', ' ', cleaned)
RECURSIVE CollapseSpace(_)
CollapseSpace(s) ==
  IF s = <<>> THEN <<>>
  ELSE IF s[1] \in SpaceCh THEN <<" ">> \o CollapseSpace(Drop(s, RunLen(s, SpaceCh)))
  ELSE <<s[1]>> \o CollapseSpace(Tail(s))
\* re.sub(r'\s*-\s*', ' - ', cleaned)
RECURSIVE NormHyphen(_)
NormHyphen(s) ==
  IF s = <<>> THEN <<>>
  ELSE LET k == RunLen(s, SpaceCh)
       IN  IF Len(s) > k /\ s[k + 1] = "-"
           THEN <<" ", "-", " ">>
                  \o NormHyphen(Drop(s, k + 1 + RunLen(Drop(s, k + 1), SpaceCh)))
           ELSE <<s[1]>> \o NormHyphen(Tail(s))
\* re.sub(r'\s+(\.[^.]+)$', r'\1', cleaned): the spaces before the last dot go,
\* when something follows that dot
SpaceBeforeExt(s) ==
  LET d == RFind(s, ".")
  IN  IF d > 1 /\ d < Len(s) /\ s[d - 1] \in SpaceCh
      THEN RStrip(Take(s, d - 1), SpaceCh) \o Drop(s, d - 1)
      ELSE s
\* a normaliser that leaves the invalid characters in
ReplaceInvalidNone(s) == s

\* re.sub(r'[<>:"/\\|?*]', '-', cleaned)
ReplaceInvalid(s) == [k \in DOMAIN s |-> IF s[k] \in InvalidCh THEN "-" ELSE s[k]]
\* re.sub(r'[\x00-\x1f\x7f]', '', cleaned)
RemoveControl(s) == SelectSeq(s, LAMBDA c : c \notin ControlCh)
\* os.path.splitext: the last dot splits, unless only dots precede it
HasExt(p) == LET d == RFind(p, ".")
             IN  d > 0 /\ \E k \in 1..(d - 1) : p[k] # "."
SplitName(p) == IF HasExt(p) THEN Take(p, RFind(p, ".") - 1) ELSE p
SplitExt(p) == IF HasExt(p) THEN Drop(p, RFind(p, ".") - 1) ELSE <<>>

\* the page title or audio_<id>.mp3 stands in for an empty or dot-led name
Fallback(cleaned, sound_id, page_title) ==
  IF Strip(cleaned) = <<>> \/ StartsWith(Strip(cleaned), <<".">>)
  THEN IF Strip(page_title) # <<>>
       THEN Strip(page_title) \o Mp3
       ELSE AudioName(sound_id)
  ELSE cleaned
\* "Normalize spacing and punctuation"
Spacing(cleaned) ==
  Strip(SpaceBeforeExt(NormHyphen(CollapseSpace(
          ReplaceDashDash(ReplaceUnderscore(cleaned))))))
\* "Title case if all lowercase or all uppercase"
StemCase(name) ==
  IF name # <<>> /\ (IsLower(name) \/ IsUpper(name)) THEN TitleCase(name) ELSE name
\* "Handle Windows reserved names"
Reserved(name) ==
  IF Upper(name) \in WINDOWS_RESERVED_NAMES THEN <<"_">> \o name ELSE name
\* "Final safety check"
FinalCheck(cleaned, sound_id) ==
  IF cleaned = <<>> \/ cleaned = Mp3 THEN AudioName(sound_id) ELSE cleaned
\* the stem and the extension are handled apart and put together again
Recombine(cleaned) ==
  Reserved(StemCase(RStrip(SplitName(cleaned), {".", " "}))) \o SplitExt(cleaned)

_sanitize_filename(raw_filename, sound_id, page_title) ==
  FinalCheck(
    Recombine(RemoveControl(ReplaceInvalid(Spacing(
      Fallback(RemoveUuid(Unescape(raw_filename)), sound_id, page_title))))),
    sound_id)

----------------------------------------------------------------------------
(* The site and the filesystem.                                            *)
(*                                                                         *)
(* A board page is modelled by what the patterns of the program find in    *)
(* it: items, the (data-src, title) blocks of the primary pattern; anchors,*)
(* the /sb/sound/<id> links whose class attribute holds btn-download-track,*)
(* each with its whole class attribute; nsounds and views, what the        *)
(* patterns of search_boards find.  fetch tells whether the page can be    *)
(* retrieved.                                                              *)

VARIABLES
  site,     \* [board name -> page]: the pages of the site, unchanged in a behaviour
  dirs,     \* [board name -> BOOLEAN]: the output directory exists
  files,    \* [board name -> set of [name, data]]: the files of the directory
  run,      \* the number of the current run of the program
  sg,       \* the frame of SoundboardSnag.snag: its locals and where it stands
  hist,     \* what the current run did (requests, outcomes), and the previous run
  web,      \* the kind of site the search meets: what its result pages list
  sb,       \* the frame of search_boards
  sh,       \* what the search requested and what it was served
  mn,       \* the frame of main
  nm        \* a file name and what _sanitize_filename makes of it

MaxItems == 3        \* sound blocks on a page, at most
MaxAnchors == 2      \* download anchors on a page, at most
MaxRuns == 2         \* runs of the program in a behaviour

max_consecutive_failures == 2

B1 == <<"b", "1">>
B2 == <<"b", "2">>
B3 == <<"B", "3">>
BoardNames == {B1, B2, B3}

DigitSeq == <<"0","1","2","3","4","5","6","7","8","9">>
\* str(k) of a small number
Digits(k) == IF k < 10 THEN <<DigitSeq[k + 1]>>
             ELSE <<DigitSeq[(k \div 10) + 1], DigitSeq[(k % 10) + 1]>>

\* the tracks of the site: track k has the id str(k); titles and the file
\* names of the Content-Disposition header repeat with period 4
TitleList == << <<"a","_","b">>, <<>>, <<"a"," ","b">>, <<>> >>
DispList == << <<>>, <<"x",".","m","p","3">>, <<>>, <<>> >>
TitleOf(k) == TitleList[((k - 1) % 4) + 1]
DispOf(sound_id) ==
  LET k == ToInt(sound_id, 10) IN DispList[((k - 1) % 4) + 1]

ExactClass == "btn-download-track"
MultiClass == "btn btn-download-track"

Items(n) == [k \in 1..n |-> <<Digits(k), TitleOf(k)>>]
Anchors(m, cls) == [k \in 1..m |-> [id |-> Digits(k), class |-> cls]]

ViewTexts == {<<>>, <<"5">>, <<"1",",","2","0","0">>, <<"n","/","a">>}

Pages == [items : {Items(n) : n \in 0..MaxItems},
          anchors : {Anchors(m, cls) : m \in 0..MaxAnchors,
                                       cls \in {ExactClass, MultiClass}},
          nsounds : {0},
          views : {<<>>}]

\* a capability check that finds every board download-capable
CheckDownloadsAlways(html_content) == <<TRUE, Len(html_content.anchors)>>

\* _check_downloads_enabled: (has_downloads, download_count)
_check_downloads_enabled(html_content) ==
  <<Len(html_content.anchors) > 0, Len(html_content.anchors)>>

\* the fallback pattern wants the class attribute to be exactly the marker
FallbackIds(anchors) ==
  SelectSeq(anchors, LAMBDA a : a.class = ExactClass)

\* _parse_sound_items
_parse_sound_items(html_content) ==
  IF html_content.items # <<>> THEN html_content.items
  ELSE LET ids == FallbackIds(html_content.anchors)
       IN  [k \in DOMAIN ids |-> <<ids[k].id, <<>>>>]

\* _extract_filename_from_headers: the file name of the header, <<>> for None
_extract_filename_from_headers(sound_id) == DispOf(sound_id)

FileNames(fset) == {f.name : f \in fset}

\* what a request of /track/download/<id> can meet: the status or the error
\* of urlopen, and for a 200 how writing the file ends
Responses ==
  [status : {"200"}, write : {"ok", "open_error", "partial"}]
  \cup [status : {"404", "HTTPError", "URLError"}, write : {"ok"}]

\* the name _snag_sound gives the file of a sound: the page title is preferred
\* to the file name of the header, and the result is normalised
RawFilename(sound_id, page_title) ==
  IF Strip(page_title) # <<>> THEN Strip(page_title) \o Mp3
  ELSE IF _extract_filename_from_headers(sound_id) # <<>>
  THEN _extract_filename_from_headers(sound_id)
  ELSE AudioName(sound_id)
FinalFilename(sound_id, page_title) ==
  _sanitize_filename(RawFilename(sound_id, page_title), sound_id, page_title)

\* the records the pages of the model can yield, and the name of each
\* (FinalFilename, computed once)
Records ==
  {<<Digits(k), TitleOf(k)>> : k \in 1..Max(MaxItems, MaxAnchors)}
  \cup {<<Digits(k), <<>>>> : k \in 1..Max(MaxItems, MaxAnchors)}
FinalNames == [rec \in Records |-> FinalFilename(rec[1], rec[2])]

\* a _snag_sound that does not look for the file before it writes
SnagSoundNoSkip(sound_id, page_title, dirFiles, resp) ==
  IF resp.status # "200" \/ resp.write = "open_error"
  THEN [result |-> "False", files |-> dirFiles, reads |-> 0, name |-> <<>>]
  ELSE LET final_filename == FinalNames[<<sound_id, page_title>>]
           data == <<sound_id, IF resp.write = "ok" THEN "full" ELSE "partial">>
       IN  [result |-> IF resp.write = "ok" THEN "True" ELSE "False",
            files |-> {f \in dirFiles : f.name # final_filename}
                        \cup {[name |-> final_filename, data |-> data]},
            reads |-> 1, name |-> final_filename]

\* a _snag_sound that opens the file for writing before it looks for it: a
\* file that exists is skipped, but truncated
SnagSoundOpenFirst(sound_id, page_title, dirFiles, resp) ==
  IF resp.status # "200"
  THEN [result |-> "False", files |-> dirFiles, reads |-> 0, name |-> <<>>]
  ELSE LET final_filename == FinalNames[<<sound_id, page_title>>]
           data == <<sound_id, IF resp.write = "ok" THEN "full" ELSE "partial">>
       IN  IF final_filename \in FileNames(dirFiles)
           THEN [result |-> "None",
                 files |-> {f \in dirFiles : f.name # final_filename}
                             \cup {[name |-> final_filename, data |-> <<sound_id, "empty">>]},
                 reads |-> 0, name |-> final_filename]
           ELSE IF resp.write = "open_error"
           THEN [result |-> "False", files |-> dirFiles, reads |-> 0,
                 name |-> final_filename]
           ELSE [result |-> IF resp.write = "ok" THEN "True" ELSE "False",
                 files |-> dirFiles \cup {[name |-> final_filename, data |-> data]},
                 reads |-> 1, name |-> final_filename]

\* a _snag_sound that takes a status other than 200 for a file to skip
SnagSoundStatusSkipped(sound_id, page_title, dirFiles, resp) ==
  IF resp.status # "200"
  THEN [result |-> "None", files |-> dirFiles, reads |-> 0, name |-> <<>>]
  ELSE LET final_filename == FinalNames[<<sound_id, page_title>>]
           data == <<sound_id, IF resp.write = "ok" THEN "full" ELSE "partial">>
       IN  IF final_filename \in FileNames(dirFiles)
           THEN [result |-> "None", files |-> dirFiles, reads |-> 0,
                 name |-> final_filename]
           ELSE IF resp.write = "open_error"
           THEN [result |-> "False", files |-> dirFiles, reads |-> 0,
                 name |-> final_filename]
           ELSE [result |-> IF resp.write = "ok" THEN "True" ELSE "False",
                 files |-> dirFiles \cup {[name |-> final_filename, data |-> data]},
                 reads |-> 1, name |-> final_filename]

\* _snag_sound: result is "True", "None" (skipped) or "False"; files is the
\* directory afterwards; reads tells whether the body of the response was read
_snag_sound(sound_id, page_title, dirFiles, resp) ==
  IF resp.status # "200"
  THEN [result |-> "False", files |-> dirFiles, reads |-> 0, name |-> <<>>]
  ELSE
    LET final_filename == FinalNames[<<sound_id, page_title>>]
    IN  IF final_filename \in FileNames(dirFiles)
        THEN [result |-> "None", files |-> dirFiles, reads |-> 0,
              name |-> final_filename]
        ELSE CASE resp.write = "ok" ->
                    [result |-> "True",
                     files |-> dirFiles \cup
                       {[name |-> final_filename, data |-> <<sound_id, "full">>]},
                     reads |-> 1, name |-> final_filename]
               [] resp.write = "open_error" ->
                    [result |-> "False", files |-> dirFiles, reads |-> 0,
                     name |-> final_filename]
               [] resp.write = "partial" ->
                    [result |-> "False",
                     files |-> dirFiles \cup
                       {[name |-> final_filename, data |-> <<sound_id, "partial">>]},
                     reads |-> 1, name |-> final_filename]

----------------------------------------------------------------------------
(* SoundboardSnag.snag, one board.                                         *)

NoPage == [items |-> <<>>, anchors |-> <<>>, nsounds |-> 0, views |-> <<>>]

\* the frame of snag when it is entered for board b
SnagFrame(b) ==
  [pc |-> "start", board |-> b, html |-> NoPage,
   has_downloads |-> FALSE, download_count |-> 0, sound_items |-> <<>>,
   i |-> 0, snagged_count |-> 0, existing_count |-> 0, failed_count |-> 0,
   consecutive_failures |-> 0, stopped |-> FALSE, result |-> "none"]

NoLast == [status |-> "none", name |-> <<>>]

\* the record of a run that starts with the directory of board b as it is
RunStart(b, prev) ==
  [pageReqs |-> 0, downloadReqs |-> 0, reads |-> 0, outcomes |-> <<>>,
   created |-> FALSE, rmdir |-> "none",
   last |-> NoLast, dirAtStart |-> dirs[b], filesAtStart |-> files[b],
   prev |-> prev]

NoPrev == [outcomes |-> <<>>, result |-> "none"]

\* the directory of the board before the first run: absent, empty, holding a
\* file under the name the first track gets, or holding an unrelated file
OldFile(name) == [name |-> name, data |-> <<"old">>]
InitDirs ==
  {[dir |-> FALSE, files |-> {}],
   [dir |-> TRUE, files |-> {}],
   [dir |-> TRUE, files |-> {OldFile(<<"A"," ","B",".","m","p","3">>)}],
   [dir |-> TRUE, files |-> {OldFile(<<"z">>)}]}

\* _fetch_page returns the page
FetchPageOK ==
  /\ sg.pc = "start"
  /\ sg' = [sg EXCEPT !.pc = "fetched", !.html = site[sg.board]]
  /\ hist' = [hist EXCEPT !.pageReqs = @ + 1]
  /\ UNCHANGED <<site, dirs, files, run>>
  /\ UNCHANGED <<web, sb, sh, mn, nm>>

\* _fetch_page raises RuntimeError (status not 200, HTTPError, URLError)
FetchPageError ==
  /\ sg.pc = "start"
  /\ sg' = [sg EXCEPT !.pc = "raised", !.result = "RuntimeError: page"]
  /\ hist' = [hist EXCEPT !.pageReqs = @ + 1]
  /\ UNCHANGED <<site, dirs, files, run>>
  /\ UNCHANGED <<web, sb, sh, mn, nm>>

\* the two fatal conditions tested in the other order
CheckResultDisabledFirst(has_downloads, sound_items) ==
  IF ~has_downloads THEN "RuntimeError: disabled"
  ELSE IF sound_items = <<>> THEN "RuntimeError: no audio"
  ELSE "ok"

\* the two fatal conditions of a fetched page, "ok" when neither holds: no
\* record at all comes first, downloads disabled second
CheckResult(has_downloads, sound_items) ==
  IF sound_items = <<>> THEN "RuntimeError: no audio"
  ELSE IF ~has_downloads THEN "RuntimeError: disabled"
  ELSE "ok"

\* the capability check, the extraction and the two fatal conditions
CheckPage ==
  /\ sg.pc = "fetched"
  /\ LET chk == _check_downloads_enabled(sg.html)
         sound_items == _parse_sound_items(sg.html)
         res == CheckResult(chk[1], sound_items)
     IN  sg' = [sg EXCEPT !.pc = IF res = "ok" THEN "loop" ELSE "raised",
                          !.has_downloads = chk[1], !.download_count = chk[2],
                          !.sound_items = sound_items,
                          !.result = IF res = "ok" THEN "none" ELSE res]
  /\ UNCHANGED <<site, dirs, files, run, hist>>
  /\ UNCHANGED <<web, sb, sh, mn, nm>>

\* a counter that a skipped file does not reset
NextConsecutiveNoReset(result, consecutive_failures) ==
  IF result = "False" THEN consecutive_failures + 1
  ELSE IF result = "None" THEN consecutive_failures
  ELSE 0

\* consecutive_failures after a sound: a failure counts, anything else resets
NextConsecutive(result, consecutive_failures) ==
  IF result = "False" THEN consecutive_failures + 1 ELSE 0

\* a removal of the directory with what it holds (shutil.rmtree)
CanRemoveAny(dirFiles) == TRUE

\* os.rmdir removes a directory only when it is empty
CanRemove(dirFiles) == dirFiles = {}

Outcome(result) == CASE result = "True" -> "Saved"
                     [] result = "None" -> "Skipped"
                     [] OTHER -> "Failed"

\* one pass of the loop over sound_items: the directory is made when it is
\* missing, the sound is requested, the counters are updated, and at the
\* cutoff the empty directory is removed and the loop is left
LoopIter ==
  /\ sg.pc = "loop" /\ ~sg.stopped /\ sg.i < Len(sg.sound_items)
  /\ \/ \* os.makedirs raises OSError, which leaves snag
        /\ ~dirs[sg.board]
        /\ sg' = [sg EXCEPT !.pc = "raised", !.i = @ + 1, !.result = "OSError"]
        /\ UNCHANGED <<dirs, files, hist>>
     \/ \E resp \in Responses :
          LET b == sg.board
              item == sg.sound_items[sg.i + 1]
              r == _snag_sound(item[1], item[2], files[b], resp)
              snagged == sg.snagged_count + (IF r.result = "True" THEN 1 ELSE 0)
              existing == sg.existing_count + (IF r.result = "None" THEN 1 ELSE 0)
              failed == sg.failed_count + (IF r.result = "False" THEN 1 ELSE 0)
              consecutive == NextConsecutive(r.result, sg.consecutive_failures)
              cutoff == r.result = "False" /\ consecutive >= max_consecutive_failures
              cleanup == cutoff /\ snagged = 0 /\ existing = 0
          IN
          \* os.rmdir removes an empty directory, or raises OSError
          \E rmdir_ok \in IF cleanup /\ CanRemove(r.files) THEN BOOLEAN ELSE {FALSE} :
            /\ sg' = [sg EXCEPT !.i = @ + 1, !.snagged_count = snagged,
                                !.existing_count = existing, !.failed_count = failed,
                                !.consecutive_failures = consecutive,
                                !.stopped = cutoff]
            /\ dirs' = [dirs EXCEPT ![b] = ~rmdir_ok]
            /\ files' = [files EXCEPT ![b] = r.files]
            /\ hist' = [hist EXCEPT !.downloadReqs = @ + 1,
                                    !.reads = @ + r.reads,
                                    !.outcomes = Append(@, Outcome(r.result)),
                                    !.created = @ \/ ~dirs[b],
                                    !.rmdir = IF rmdir_ok THEN "removed"
                                              ELSE IF cleanup THEN "error"
                                              ELSE @,
                                    !.last = [status |-> resp.status, name |-> r.name]]
  /\ UNCHANGED <<site, run>>
  /\ UNCHANGED <<web, sb, sh, mn, nm>>

\* the summary and return True, after the last sound or after the cutoff
Return ==
  /\ sg.pc = "loop" /\ (sg.stopped \/ sg.i = Len(sg.sound_items))
  /\ sg' = [sg EXCEPT !.pc = "returned", !.result = "True"]
  /\ UNCHANGED <<site, dirs, files, run, hist>>
  /\ UNCHANGED <<web, sb, sh, mn, nm>>

\* the program is run again for the same board, against the same site
Rerun ==
  /\ sg.pc \in {"returned", "raised"}
  /\ run < MaxRuns
  /\ run' = run + 1
  /\ sg' = SnagFrame(sg.board)
  /\ hist' = RunStart(sg.board, [outcomes |-> hist.outcomes, result |-> sg.result])
  /\ UNCHANGED <<site, dirs, files>>
  /\ UNCHANGED <<web, sb, sh, mn, nm>>

----------------------------------------------------------------------------
(* search_boards.                                                          *)

MaxTarget == 2       \* max_results, at most
MaxPerPage == 2      \* board links on a result page of the small site

max_pages == 10

\* str.lower()
Lower(s) == [k \in DOMAIN s |-> ToLower(s[k])]

\* the links of the site's navigation match the board pattern too
NavNames == {<<"s","e","a","r","c","h">>, <<"p","o","p","u","l","a","r">>,
             <<"n","e","w">>}
SearchLink == <<"s","e","a","r","c","h">>
NewLink == <<"N","e","w">>

SeqsUpTo(S, n) == UNION {[1..k -> S] : k \in 0..n}

\* board p of the long site, which lists one board on every result page
LongName(p) == <<"n">> \o Digits(p)

\* what re.findall(board_pattern) can find on result page p: on the small
\* site any short list of board and navigation links, on the long site one new
\* board a page, on the site of main two pages and then none
ListingChoices(p) ==
  CASE web = "small" -> SeqsUpTo(BoardNames \cup {NewLink}, MaxPerPage)
    [] web = "long" -> {<<LongName(p)>>}
    [] OTHER -> IF p = 1 THEN {<<B1, SearchLink, B2>>}
                ELSE IF p = 2 THEN {<<B2, NewLink, B3>>}
                ELSE {<<>>}

\* the board pages the search can meet: with a download anchor or without,
\* and the number of sounds and the views text one of four pairs
SoundsAndViews ==
  {<<3, <<"1",",","2","0","0">>>>, <<3, <<"5">>>>, <<3, <<>>>>,
   <<0, <<"n","/","a">>>>}
SearchBoardPages ==
  {[items |-> <<>>, anchors |-> a, nsounds |-> sv[1], views |-> sv[2]] :
     a \in {<<>>, Anchors(1, MultiClass)}, sv \in SoundsAndViews}
PlayOnlyPage ==
  [items |-> <<>>, anchors |-> <<>>, nsounds |-> 3, views |-> <<"5">>]

\* what the page of board b can be when the search asks for it
BoardPageChoices(b) ==
  CASE web = "small" -> SearchBoardPages
    [] web = "long" -> {PlayOnlyPage}
    [] OTHER -> {site[b]}

\* whether int() accepts the text: an optional sign and decimal digits
IsIntLiteral(t) ==
  LET body == IF t # <<>> /\ t[1] \in {"+", "-"} THEN Tail(t) ELSE t
  IN  body # <<>> /\ Chars(body) \subseteq DigitCh
IntOf(t) ==
  IF t[1] = "-" THEN 0 - ToInt(Tail(t), 10)
  ELSE IF t[1] = "+" THEN ToInt(Tail(t), 10)
  ELSE ToInt(t, 10)

\* views_int: the views text without commas as a number, 0 when there is no
\* text or int() raises ValueError
ViewsInt(views) ==
  IF views = <<>> THEN 0
  ELSE LET t == SelectSeq(views, LAMBDA c : c # ",")
       IN  IF IsIntLiteral(Strip(t)) THEN IntOf(Strip(t)) ELSE 0

\* filters that leave the number of sounds out
MeetsFiltersViewsOnly(views_int, sound_count, min_views, min_sounds) ==
  ~(min_views > 0 /\ views_int < min_views)

\* meets_filters: a filter of 0 is off
MeetsFilters(views_int, sound_count, min_views, min_sounds) ==
  /\ ~(min_views > 0 /\ views_int < min_views)
  /\ ~(min_sounds > 0 /\ sound_count < min_sounds)

\* the boards of a result page that are new: not seen before, in this page or
\* an earlier one, and not a navigation link
\* a comparison with the navigation links that minds the case
IsNavigationExact(board) == board \in NavNames

\* board.lower() in ['search', 'popular', 'new']
IsNavigation(board) == Lower(board) \in NavNames

RECURSIVE NewBoards(_, _)
NewBoards(boards, seen) ==
  IF boards = <<>> THEN <<>>
  ELSE LET board == Unescape(Head(boards))
       IN  IF board \notin seen /\ ~IsNavigation(board)
           THEN <<board>> \o NewBoards(Tail(boards), seen \cup {board})
           ELSE NewBoards(Tail(boards), seen)

\* a limit that is reached one board late
LimitReachedLate(downloadable_count, target_downloadable) ==
  downloadable_count > target_downloadable

\* downloadable_count >= target_downloadable
LimitReached(downloadable_count, target_downloadable) ==
  downloadable_count >= target_downloadable

\* a final list that keeps the boards without downloads
FilterAll(results) == results

\* results = [r for r in results if r[1]]
FilterDownloadable(results) == SelectSeq(results, LAMBDA r : r.has_downloads)

\* results.sort(key=views_int, reverse=True): most views first, boards of
\* equal views in the order they had
RECURSIVE SortByViews(_)
SortByViews(results) ==
  IF results = <<>> THEN <<>>
  ELSE LET r == results[Len(results)]
           rest == SortByViews(Take(results, Len(results) - 1))
           n == Cardinality({k \in DOMAIN rest : rest[k].views_int >= r.views_int})
       IN  Take(rest, n) \o <<r>> \o Drop(rest, n)

\* the frame of search_boards when it is entered
SearchFrame(max_results, min_views, min_sounds) ==
  [pc |-> "while", max_results |-> max_results, min_views |-> min_views,
   min_sounds |-> min_sounds, results |-> <<>>, downloadable_count |-> 0,
   skipped_count |-> 0, target_downloadable |-> max_results, seen |-> {},
   page |-> 1, keep_searching |-> TRUE, page_boards |-> <<>>, k |-> 0,
   ret |-> <<>>]
IdleSearch == [SearchFrame(0, 0, 0) EXCEPT !.pc = "idle"]

NoServed == [name |-> <<>>, page |-> NoPage]

\* the requests of the search in their order, the boards that were found
\* download-capable and within the filters, the boards whose analysis raised,
\* the page the board analysed last was served, and how the request of the
\* last result page ended ("error", "empty" for no new board, "boards")
NoSearchHistory ==
  [searchReqs |-> <<>>, boardReqs |-> <<>>, qualified |-> {}, failed |-> {},
   served |-> NoServed, lastPage |-> "none"]

otherThanSearch == <<site, dirs, files, run, sg, hist, web, mn, nm>>

\* a loop without the limit of pages
WhileConditionNoCap(keep_searching, page) == keep_searching

\* while keep_searching and page <= max_pages
WhileCondition(keep_searching, page) == keep_searching /\ page <= max_pages

\* the while condition is false: the loop is left without a request
WhileExit ==
  /\ sb.pc = "while"
  /\ ~WhileCondition(sb.keep_searching, sb.page)
  /\ sb' = [sb EXCEPT !.pc = "after"]
  /\ UNCHANGED sh
  /\ UNCHANGED otherThanSearch

\* the request of a result page raises HTTPError or URLError: break
SearchPageError ==
  /\ sb.pc = "while"
  /\ WhileCondition(sb.keep_searching, sb.page)
  /\ sb' = [sb EXCEPT !.pc = "after"]
  /\ sh' = [sh EXCEPT !.searchReqs = Append(@, sb.page), !.lastPage = "error"]
  /\ UNCHANGED otherThanSearch

\* a result page is fetched and its new boards are collected; none: break
SearchPageOK ==
  /\ sb.pc = "while"
  /\ WhileCondition(sb.keep_searching, sb.page)
  /\ \E boards \in ListingChoices(sb.page) :
       LET page_boards == NewBoards(boards, sb.seen)
       IN  /\ sb' = IF page_boards = <<>>
                    THEN [sb EXCEPT !.pc = "after", !.page_boards = <<>>, !.k = 0]
                    ELSE [sb EXCEPT !.pc = "for", !.page_boards = page_boards,
                                    !.k = 0,
                                    !.seen = @ \cup Chars(page_boards)]
           /\ sh' = [sh EXCEPT !.searchReqs = Append(@, sb.page),
                               !.lastPage = IF page_boards = <<>>
                                            THEN "empty" ELSE "boards"]
  /\ UNCHANGED otherThanSearch

\* the next board of the page when enough downloadable boards were found:
\* keep_searching = False and break, and the test after the loop breaks again
ForBreak ==
  /\ sb.pc = "for" /\ sb.k < Len(sb.page_boards)
  /\ LimitReached(sb.downloadable_count, sb.target_downloadable)
  /\ sb' = [sb EXCEPT !.pc = "after", !.keep_searching = FALSE]
  /\ UNCHANGED sh
  /\ UNCHANGED otherThanSearch

\* the next board of the page is fetched and analysed; an exception skips it
AnalyzeBoard ==
  /\ sb.pc = "for" /\ sb.k < Len(sb.page_boards)
  /\ ~LimitReached(sb.downloadable_count, sb.target_downloadable)
  /\ LET board_name == sb.page_boards[sb.k + 1] IN
     \/ /\ sb' = [sb EXCEPT !.k = @ + 1]
        /\ sh' = [sh EXCEPT !.boardReqs = Append(@, board_name),
                            !.failed = @ \cup {board_name},
                            !.served = NoServed]
     \/ \E board_html \in BoardPageChoices(board_name) :
          LET has_downloads == Len(board_html.anchors) > 0
              sound_count == board_html.nsounds
              views == Unescape(Strip(board_html.views))
              views_int == ViewsInt(views)
              meets_filters == MeetsFilters(views_int, sound_count,
                                            sb.min_views, sb.min_sounds)
              entry == [board_name |-> board_name, has_downloads |-> has_downloads,
                        sound_count |-> sound_count, views |-> views,
                        views_int |-> views_int]
          IN  /\ sb' = [sb EXCEPT
                   !.k = @ + 1,
                   !.results = IF meets_filters THEN Append(@, entry) ELSE @,
                   !.downloadable_count =
                      IF meets_filters /\ has_downloads THEN @ + 1 ELSE @,
                   !.skipped_count =
                      IF ~meets_filters /\ has_downloads THEN @ + 1 ELSE @]
              /\ sh' = [sh EXCEPT
                   !.boardReqs = Append(@, board_name),
                   !.qualified = IF meets_filters /\ has_downloads
                                 THEN @ \cup {board_name} ELSE @,
                   !.served = [name |-> board_name, page |-> board_html]]
  /\ UNCHANGED otherThanSearch

\* after the boards of a page: break when enough were found, else next page
EndOfPage ==
  /\ sb.pc = "for" /\ sb.k = Len(sb.page_boards)
  /\ sb' = IF LimitReached(sb.downloadable_count, sb.target_downloadable)
           THEN [sb EXCEPT !.pc = "after"]
           ELSE [sb EXCEPT !.pc = "while", !.page = @ + 1]
  /\ UNCHANGED sh
  /\ UNCHANGED otherThanSearch

\* the boards without downloads are dropped, the rest is sorted and returned
SearchReturn ==
  /\ sb.pc = "after"
  /\ sb' = [sb EXCEPT !.pc = "returned",
                      !.ret = SortByViews(FilterDownloadable(sb.results))]
  /\ UNCHANGED sh
  /\ UNCHANGED otherThanSearch

----------------------------------------------------------------------------
(* main: the download root, the modes, and the interrupt of the user.      *)

\* the frame of main; attempts lists the boards snag was started for, and
\* outcomes how snag ended for each ("True" or the exception)
MainFrame(mode, root, max, min_views, min_sounds) ==
  [pc |-> "start", mode |-> mode, root |-> root, interrupted |-> FALSE,
   message |-> "none", max |-> max, min_views |-> min_views,
   min_sounds |-> min_sounds, downloadable_boards |-> <<>>, total_boards |-> 0,
   idx |-> 0, successful |-> 0, failed |-> 0, attempts |-> <<>>,
   outcomes |-> <<>>, exit |-> "none"]
IdleMain == [MainFrame("none", "none", 0, 0, 0) EXCEPT !.pc = "idle"]

\* the download root of the command line is made when it does not exist;
\* OSError of os.makedirs ends the run with code 1
MainRoot ==
  /\ mn.pc = "start"
  /\ \/ /\ mn.root = "absent"
        /\ \/ mn' = [mn EXCEPT !.pc = "dispatch", !.root = "exists"]
           \/ mn' = [mn EXCEPT !.pc = "exit", !.exit = "1",
                               !.message = "root error"]
     \/ /\ mn.root # "absent"
        /\ mn' = [mn EXCEPT !.pc = "dispatch"]
  /\ UNCHANGED <<site, dirs, files, run, sg, hist, web, sb, sh, nm>>

\* search_boards is called with the arguments of the command line
MainSearchAndDownload ==
  /\ mn.pc = "dispatch" /\ mn.mode = "search_and_download"
  /\ mn' = [mn EXCEPT !.pc = "search"]
  /\ sb' = SearchFrame(mn.max, mn.min_views, mn.min_sounds)
  /\ sh' = NoSearchHistory
  /\ UNCHANGED <<site, dirs, files, run, sg, hist, web, nm>>

\* the search has returned: nothing to download ends the run with code 0,
\* otherwise the tallies are set up for the boards of the list
MainResults ==
  /\ mn.pc = "search" /\ sb.pc = "returned"
  /\ mn' = IF sb.ret = <<>>
           THEN [mn EXCEPT !.pc = "exit", !.exit = "0", !.message = "no boards"]
           ELSE LET downloadable_boards == FilterDownloadable(sb.ret)
                IN  [mn EXCEPT !.pc = "boards",
                               !.downloadable_boards = downloadable_boards,
                               !.total_boards = Len(downloadable_boards),
                               !.idx = 0, !.successful = 0, !.failed = 0]
  /\ UNCHANGED <<site, dirs, files, run, sg, hist, web, sb, sh, nm>>

\* the next board of the list: a SoundboardSnag is made and snag is entered
MainBeginBoard ==
  /\ mn.pc = "boards" /\ mn.idx < mn.total_boards
  /\ LET board_name == mn.downloadable_boards[mn.idx + 1].board_name
     IN  /\ mn' = [mn EXCEPT !.pc = "snag", !.idx = @ + 1,
                             !.attempts = Append(@, board_name)]
         /\ sg' = SnagFrame(board_name)
         /\ hist' = RunStart(board_name, NoPrev)
  /\ UNCHANGED <<site, dirs, files, run, web, sb, sh, nm>>

\* a loop that a fatal error of a board leaves
TallyAbort(frame, pc, result) ==
  IF pc = "returned" /\ result = "True"
  THEN [frame EXCEPT !.pc = "boards", !.successful = @ + 1]
  ELSE IF pc = "returned"
  THEN [frame EXCEPT !.pc = "boards", !.failed = @ + 1]
  ELSE [frame EXCEPT !.pc = "exit", !.exit = "1"]

\* the tallies after snag has returned or raised: an exception is caught
\* and counts as a failure
Tally(frame, pc, result) ==
  IF pc = "returned" /\ result = "True"
  THEN [frame EXCEPT !.pc = "boards", !.successful = @ + 1]
  ELSE IF pc = "returned"
  THEN [frame EXCEPT !.pc = "boards", !.failed = @ + 1]
  ELSE [frame EXCEPT !.pc = "boards", !.failed = @ + 1]

\* snag has returned or raised for the board
MainEndBoard ==
  /\ mn.pc = "snag" /\ sg.pc \in {"returned", "raised"}
  /\ mn' = [Tally(mn, sg.pc, sg.result) EXCEPT !.outcomes = Append(@, sg.result)]
  /\ UNCHANGED <<site, dirs, files, run, sg, hist, web, sb, sh, nm>>

\* after the last board: the summary, and exit code 0
MainSummary ==
  /\ mn.pc = "boards" /\ mn.idx = mn.total_boards
  /\ mn' = [mn EXCEPT !.pc = "exit", !.exit = "0", !.message = "summary"]
  /\ UNCHANGED <<site, dirs, files, run, sg, hist, web, sb, sh, nm>>

\* search mode: search_boards is called
MainSearch ==
  /\ mn.pc = "dispatch" /\ mn.mode = "search"
  /\ mn' = [mn EXCEPT !.pc = "searchonly"]
  /\ sb' = SearchFrame(mn.max, mn.min_views, mn.min_sounds)
  /\ sh' = NoSearchHistory
  /\ UNCHANGED <<site, dirs, files, run, sg, hist, web, nm>>

\* search mode: the search has returned, exit code 0
MainSearchDone ==
  /\ mn.pc = "searchonly" /\ sb.pc = "returned"
  /\ mn' = [mn EXCEPT !.pc = "exit", !.exit = "0", !.message = "results"]
  /\ UNCHANGED <<site, dirs, files, run, sg, hist, web, sb, sh, nm>>

\* one board: its name or URL comes from the command line, or is asked for
MainDispatchSingle ==
  /\ mn.pc = "dispatch" /\ mn.mode \in {"board", "url", "interactive"}
  /\ mn' = [mn EXCEPT !.pc = IF mn.mode = "interactive" THEN "prompt"
                              ELSE "construct"]
  /\ UNCHANGED <<site, dirs, files, run, sg, hist, web, sb, sh, nm>>

\* input("URL: ") returns a line, or raises EOFError: exit code 1
MainPromptInput ==
  /\ mn.pc = "prompt"
  /\ \/ mn' = [mn EXCEPT !.pc = "construct"]
     \/ mn' = [mn EXCEPT !.pc = "exit", !.exit = "1", !.message = "no input"]
  /\ UNCHANGED <<site, dirs, files, run, sg, hist, web, sb, sh, nm>>

\* SoundboardSnag(soundboard_url) raises ValueError for a URL without a
\* board name, which ends the run with code 1; otherwise snag is entered
MainConstruct ==
  /\ mn.pc = "construct"
  /\ \/ /\ mn' = [mn EXCEPT !.pc = "exit", !.exit = "1", !.message = "error"]
        /\ UNCHANGED <<sg, hist>>
     \/ /\ mn' = [mn EXCEPT !.pc = "single"]
        /\ sg' = SnagFrame(B1)
        /\ hist' = RunStart(B1, NoPrev)
  /\ UNCHANGED <<site, dirs, files, run, web, sb, sh, nm>>

\* snag has returned or raised in single-board mode: an exception ends the
\* run with code 1; after a return the program waits for Enter unless the
\* URL came with --url
MainSingleEnd ==
  /\ mn.pc = "single" /\ sg.pc \in {"returned", "raised"}
  /\ mn' = IF sg.pc = "raised"
           THEN [mn EXCEPT !.pc = "exit", !.exit = "1", !.message = "error"]
           ELSE IF sg.result # "True"
           THEN [mn EXCEPT !.pc = "exit", !.exit = "1", !.message = "none"]
           ELSE IF mn.mode # "url"
           THEN [mn EXCEPT !.pc = "enter"]
           ELSE [mn EXCEPT !.pc = "exit", !.exit = "0", !.message = "complete"]
  /\ UNCHANGED <<site, dirs, files, run, sg, hist, web, sb, sh, nm>>

\* input("Complete. Press Enter to exit...") returns, and main ends with
\* code 0; or it raises EOFError, which except Exception turns into code 1
MainEnter ==
  /\ mn.pc = "enter"
  /\ \/ mn' = [mn EXCEPT !.pc = "exit", !.exit = "0", !.message = "complete"]
     \/ mn' = [mn EXCEPT !.pc = "exit", !.exit = "1",
                         !.message = "unexpected error"]
  /\ UNCHANGED <<site, dirs, files, run, sg, hist, web, sb, sh, nm>>

\* the phases of main in which KeyboardInterrupt meets an except clause
CaughtPhases ==
  {"search", "boards", "snag", "searchonly", "construct", "single", "enter"}

\* what an interrupt in the middle of a download can leave in the directory
\* of the board: the file of the sound, opened and not yet written in full
InterruptedFiles ==
  IF sg.pc = "loop" /\ ~sg.stopped /\ sg.i < Len(sg.sound_items)
     /\ mn.pc \in {"snag", "single"} /\ dirs[sg.board]
  THEN LET item == sg.sound_items[sg.i + 1]
           r == _snag_sound(item[1], item[2], files[sg.board],
                            [status |-> "200", write |-> "partial"])
       IN  {files[sg.board], r.files}
  ELSE {files[sg.board]}

\* KeyboardInterrupt: the user presses Ctrl-C.  Where an except
\* KeyboardInterrupt clause is around, the run ends with the message of the
\* cancellation and code 1; elsewhere the exception leaves main uncaught
Interrupt ==
  /\ mn.pc \notin {"idle", "exit"}
  /\ mn' = IF mn.pc \in CaughtPhases
           THEN [mn EXCEPT !.pc = "exit", !.interrupted = TRUE,
                           !.exit = "1", !.message = "cancelled"]
           ELSE [mn EXCEPT !.pc = "exit", !.interrupted = TRUE,
                           !.exit = "traceback", !.message = "traceback"]
  /\ sg' = IF sg.pc \in {"idle", "returned", "raised"} THEN sg
           ELSE [sg EXCEPT !.pc = "interrupted"]
  /\ sb' = IF sb.pc \in {"idle", "returned"} THEN sb
           ELSE [sb EXCEPT !.pc = "interrupted"]
  /\ \E fs \in InterruptedFiles : files' = [files EXCEPT ![sg.board] = fs]
  /\ UNCHANGED <<site, dirs, run, hist, web, sh, nm>>

----------------------------------------------------------------------------
(* _sanitize_filename applied to a raw name, and to its own result.        *)

MaxRawLen == 3       \* characters of a raw name, at most

\* the characters raw names are made of: a letter, the underscore, an invalid
\* character, a control character, the dot, the space and the hyphen
RawAlphabet == {"a", "_", "<", "^A", ".", " ", "-"}

\* raw names of their own: reserved device names, a character reference that
\* decodes to a character reference, all capitals
RawSeeds ==
  {<<"c","o","n",".","m","p","3">>, <<"N","U","L">>,
   <<"L","p","t","9",".","x">>, <<"c","o","m","1">>,
   <<"&","a","m","p",";","l","t",";",".","m","p","3">>,
   <<"A","B",".","m","p","3">>}

RawNames == SeqsUpTo(RawAlphabet, MaxRawLen) \cup RawSeeds
RawTitles == {<<>>, <<"a", " ", "b">>, <<"c", "o", "n">>}
RawIds == {<<"7">>}

NormFrame(raw_filename, sound_id, page_title) ==
  [pc |-> "raw", raw_filename |-> raw_filename, sound_id |-> sound_id,
   page_title |-> page_title, once |-> <<>>, twice |-> <<>>]
IdleNorm == [NormFrame(<<>>, <<>>, <<>>) EXCEPT !.pc = "idle"]

\* the raw name is normalised
Normalize ==
  /\ nm.pc = "raw"
  /\ nm' = [nm EXCEPT !.pc = "once",
                      !.once = _sanitize_filename(nm.raw_filename, nm.sound_id,
                                                  nm.page_title)]
  /\ UNCHANGED <<site, dirs, files, run, sg, hist, web, sb, sh, mn>>

\* the result is normalised again, with the same sound id and title
Renormalize ==
  /\ nm.pc = "once"
  /\ nm' = [nm EXCEPT !.pc = "twice",
                      !.twice = _sanitize_filename(nm.once, nm.sound_id,
                                                   nm.page_title)]
  /\ UNCHANGED <<site, dirs, files, run, sg, hist, web, sb, sh, mn>>

vars == <<site, dirs, files, run, sg, hist, web, sb, sh, mn, nm>>

Init ==
  /\ \E p \in Pages : site = [b \in BoardNames |-> IF b = B1 THEN p ELSE NoPage]
  /\ \E d \in InitDirs :
       /\ dirs = [b \in BoardNames |-> IF b = B1 THEN d.dir ELSE FALSE]
       /\ files = [b \in BoardNames |-> IF b = B1 THEN d.files ELSE {}]
  /\ run = 1
  /\ sg = SnagFrame(B1)
  /\ hist = RunStart(B1, NoPrev)
  /\ web = "single"
  /\ sb = IdleSearch
  /\ sh = NoSearchHistory
  /\ mn = IdleMain
  /\ nm = IdleNorm

Next == FetchPageOK \/ FetchPageError \/ CheckPage \/ LoopIter \/ Return \/ Rerun

Spec == Init /\ [][Next]_vars

\* the boards of the site main meets: the same sounds on every board, and the
\* views that tell the boards apart
MainViews(b) == IF b = B1 THEN <<"5">>
                ELSE IF b = B2 THEN <<"1",",","2","0","0">>
                ELSE <<"5">>
MainPages == {p \in Pages : Len(p.items) <= 2 /\ Len(p.anchors) <= 1}

\* a search on its own: the small site or the long one, and the arguments
MaxResultsChoices == (0 - 1)..MaxTarget
MinViewsChoices == {0, 10}
MinSoundsChoices == {0, 3}

InitSearch ==
  /\ dirs = [b \in BoardNames |-> FALSE]
  /\ files = [b \in BoardNames |-> {}]
  /\ run = 1
  /\ sg = [SnagFrame(B1) EXCEPT !.pc = "idle"]
  /\ hist = RunStart(B1, NoPrev)
  /\ \/ /\ web = "small"
        /\ \E max_results \in MaxResultsChoices, min_views \in MinViewsChoices,
              min_sounds \in MinSoundsChoices :
             sb = SearchFrame(max_results, min_views, min_sounds)
        /\ site = [b \in BoardNames |-> NoPage]
     \/ /\ web = "long"
        /\ \E min_views \in MinViewsChoices :
             sb = SearchFrame(MaxTarget, min_views, 0)
        /\ site = [b \in BoardNames |-> NoPage]
     \/ /\ web = "main"
        /\ \E min_views \in MinViewsChoices :
             sb = SearchFrame(MaxTarget, min_views, 0)
        /\ site = [b \in BoardNames |->
                     [NoPage EXCEPT !.anchors = Anchors(1, MultiClass),
                                    !.views = MainViews(b)]]
  /\ sh = NoSearchHistory
  /\ mn = IdleMain
  /\ nm = IdleNorm

NextSearch ==
  \/ WhileExit \/ SearchPageError \/ SearchPageOK
  \/ ForBreak \/ AnalyzeBoard \/ EndOfPage \/ SearchReturn

SpecSearch == InitSearch /\ [][NextSearch]_vars

\* every request is answered or fails, and the program goes on running
SpecSearchFair == SpecSearch /\ WF_vars(NextSearch)

RootChoices == {"none", "absent", "exists"}

InitMain ==
  /\ nm = IdleNorm
  /\ \/ /\ web = "main"
        /\ \E p \in MainPages :
             site = [b \in BoardNames |-> [p EXCEPT !.views = MainViews(b)]]
        /\ \/ \E max \in 0..MaxTarget, min_views \in MinViewsChoices,
                 root \in {"none", "absent"} :
                mn = MainFrame("search_and_download", root, max, min_views, 0)
           \/ \E mode \in {"board", "url", "interactive"}, root \in RootChoices :
                mn = MainFrame(mode, root, 0, 0, 0)
           \/ mn = MainFrame("search", "none", MaxTarget, 10, 0)
     \/ /\ web = "long"
        /\ site = [b \in BoardNames |-> NoPage]
        /\ mn = MainFrame("search_and_download", "none", MaxTarget, 0, 0)
  /\ dirs = [b \in BoardNames |-> FALSE]
  /\ files = [b \in BoardNames |-> {}]
  /\ run = 1
  /\ sg = [SnagFrame(B1) EXCEPT !.pc = "idle"]
  /\ hist = RunStart(B1, NoPrev)
  /\ sb = IdleSearch
  /\ sh = NoSearchHistory

NextMain ==
  \/ MainRoot \/ MainSearchAndDownload \/ MainResults \/ MainBeginBoard
  \/ MainEndBoard \/ MainSummary
  \/ MainSearch \/ MainSearchDone
  \/ MainDispatchSingle \/ MainPromptInput \/ MainConstruct
  \/ MainSingleEnd \/ MainEnter \/ Interrupt
  \/ WhileExit \/ SearchPageError \/ SearchPageOK
  \/ ForBreak \/ AnalyzeBoard \/ EndOfPage \/ SearchReturn
  \/ FetchPageOK \/ FetchPageError \/ CheckPage \/ LoopIter \/ Return

SpecMain == InitMain /\ [][NextMain]_vars

\* the normaliser on its own, for every raw name and title of the model
InitNorm ==
  /\ site = [b \in BoardNames |-> NoPage]
  /\ dirs = [b \in BoardNames |-> FALSE]
  /\ files = [b \in BoardNames |-> {}]
  /\ run = 1
  /\ sg = [SnagFrame(B1) EXCEPT !.pc = "idle"]
  /\ hist = RunStart(B1, NoPrev)
  /\ web = "single"
  /\ sb = IdleSearch
  /\ sh = NoSearchHistory
  /\ mn = IdleMain
  /\ \E raw_filename \in RawNames, sound_id \in RawIds, page_title \in RawTitles :
       nm = NormFrame(raw_filename, sound_id, page_title)

NextNorm == Normalize \/ Renormalize

SpecNorm == InitNorm /\ [][NextNorm]_vars

----------------------------------------------------------------------------
(* The board fetcher: claims C1 to C7, checked under Spec.                 *)

Board == sg.board
Outcomes == hist.outcomes
LastOutcome == IF Outcomes = <<>> THEN "none" ELSE Outcomes[Len(Outcomes)]
\* the number of Failed outcomes at the end of a sequence of outcomes
RECURSIVE TrailingFailed(_)
TrailingFailed(o) ==
  IF o # <<>> /\ o[Len(o)] = "Failed" THEN 1 + TrailingFailed(Take(o, Len(o) - 1)) ELSE 0
CountOf(o, what) == Cardinality({k \in DOMAIN o : o[k] = what})
TwoFailedAt(o, k) == o[k] = "Failed" /\ o[k + 1] = "Failed"
AllSavedOrSkipped(o) == \A k \in DOMAIN o : o[k] \in {"Saved", "Skipped"}

\* C1: in snag, as soon as two Failed outcomes follow one another no later
\* record is attempted and no further download request is issued; a Saved or
\* Skipped outcome resets the consecutive-failure counter to 0, so the run
\* stops early only when its last two outcomes are Failed, and a run in which
\* no two Failed outcomes are adjacent attempts every record.
C1_ConsecutiveFailureCutoff ==
  /\ \A k \in 1..(Len(Outcomes) - 1) :
       TwoFailedAt(Outcomes, k) => Len(Outcomes) = k + 1
  /\ hist.downloadReqs = Len(Outcomes)
  /\ sg.pc \in {"loop", "returned"} =>
       /\ sg.consecutive_failures = TrailingFailed(Outcomes)
       /\ sg.stopped <=> (Len(Outcomes) >= 2 /\ TwoFailedAt(Outcomes, Len(Outcomes) - 1))
  /\ (sg.pc = "returned" /\ ~sg.stopped) => Len(Outcomes) = Len(sg.sound_items)

\* the cutoff has fired after two download requests, both failed, with
\* records of the page left unrequested
C1_Witness ==
  /\ sg.pc = "returned" /\ sg.stopped
  /\ sg.i < Len(sg.sound_items)
  /\ hist.downloadReqs = 2

\* a run with failures that are never adjacent goes through every record
C1_WitnessReset ==
  /\ sg.pc = "returned" /\ ~sg.stopped
  /\ Outcomes \in {<<"Failed", "Saved", "Failed">>, <<"Failed", "Skipped", "Failed">>}

\* C2: when the capability check of the fetched page is false (no download
\* anchor), snag raises before the download loop: no download request is
\* issued and the output directory of the board is not created.
C2_NoDownloadsNoRequests ==
  (sg.pc \notin {"start", "fetched"} /\ Len(sg.html.anchors) = 0) =>
    /\ sg.pc = "raised"
    /\ hist.downloadReqs = 0
    /\ ~hist.created
    /\ dirs[Board] = hist.dirAtStart
    /\ files[Board] = hist.filesAtStart

\* a page with sound records and no download anchor was refused, the
\* directory still missing
C2_Witness ==
  /\ sg.result = "RuntimeError: disabled"
  /\ Len(sg.sound_items) > 0
  /\ ~dirs[Board]

\* the previous run of the program ended with every record Saved or Skipped
PrevAllSavedOrSkipped ==
  /\ run >= 2
  /\ hist.prev.result = "True"
  /\ hist.prev.outcomes # <<>>
  /\ AllSavedOrSkipped(hist.prev.outcomes)

\* C3 as stated: a second run against the unchanged page, after a first run
\* that ended with every record Saved or Skipped, ends with a Skipped outcome
\* for every record, no Saved outcome and the files unchanged.
C3_SecondRunAllSkipped ==
  (PrevAllSavedOrSkipped /\ sg.pc = "returned") =>
    /\ Len(Outcomes) = Len(sg.sound_items)
    /\ \A k \in DOMAIN Outcomes : Outcomes[k] = "Skipped"
    /\ files[Board] = hist.filesAtStart

\* C3 amended: such a second run has no Saved outcome, reads no content and
\* leaves the directory and its files as they were; every record whose
\* download request is answered with status 200 is Skipped (the others are
\* Failed, and the cutoff may leave records unattempted), so a second run all
\* of whose requests are answered with 200 has a Skipped outcome for every
\* record.
C3_SecondRunNothingSaved ==
  PrevAllSavedOrSkipped =>
    /\ CountOf(Outcomes, "Saved") = 0
    /\ hist.reads = 0
    /\ files[Board] = hist.filesAtStart
    /\ dirs[Board]
    /\ hist.last.status = "200" => LastOutcome = "Skipped"
    /\ (sg.pc = "returned" /\ CountOf(Outcomes, "Failed") = 0) =>
         /\ Len(Outcomes) = Len(sg.sound_items)
         /\ \A k \in DOMAIN Outcomes : Outcomes[k] = "Skipped"

\* a second run has skipped every record of a page with several records, one
\* of them saved by the first run
C3_Witness ==
  /\ PrevAllSavedOrSkipped
  /\ CountOf(hist.prev.outcomes, "Saved") > 0
  /\ sg.pc = "returned"
  /\ Len(Outcomes) >= 2
  /\ \A k \in DOMAIN Outcomes : Outcomes[k] = "Skipped"

C5_CleanupAtCutoff ==
  /\ sg.stopped =>
       /\ sg.pc \in {"loop", "returned"}
       /\ sg.result \in {"none", "True"}
       /\ (sg.snagged_count = 0 /\ sg.existing_count = 0) =>
            /\ hist.rmdir \in {"removed", "error"}
            /\ hist.rmdir = "removed" <=> ~dirs[Board]
            /\ files[Board] # {} => hist.rmdir = "error"
       /\ (sg.snagged_count > 0 \/ sg.existing_count > 0) =>
            hist.rmdir = "none" /\ dirs[Board]
  /\ ~sg.stopped => hist.rmdir = "none"
  /\ ~dirs[Board] => files[Board] = {}
  /\ hist.rmdir = "none" /\ Len(Outcomes) > 0 => dirs[Board]

\* the cutoff has removed the empty directory this run had made
C5_Witness ==
  /\ sg.pc = "returned" /\ sg.stopped
  /\ hist.created /\ hist.rmdir = "removed" /\ ~dirs[Board]

\* the cutoff has left in place a directory that holds only the partial file
\* of a failed download
C5_WitnessLeft ==
  /\ sg.pc = "returned" /\ sg.stopped
  /\ sg.snagged_count = 0 /\ sg.existing_count = 0
  /\ hist.rmdir = "error" /\ files[Board] # {}

\* C6: after a page was fetched, no extracted record gives the 'no audio'
\* error whatever the capability flag, records without a download anchor
\* give the 'downloads disabled' error, no sound is requested in either
\* case, and a page with a record and a download anchor gives neither.
C6_FatalConditions ==
  (sg.pc \notin {"start", "fetched"} /\ sg.result # "RuntimeError: page") =>
    LET records == _parse_sound_items(site[Board])
        links == Len(site[Board].anchors)
    IN  /\ records = <<>> => sg.result = "RuntimeError: no audio"
        /\ (records # <<>> /\ links = 0) => sg.result = "RuntimeError: disabled"
        /\ sg.result \in {"RuntimeError: no audio", "RuntimeError: disabled"} =>
             sg.pc = "raised" /\ hist.downloadReqs = 0 /\ hist.reads = 0
        /\ (records # <<>> /\ links > 0) =>
             sg.result \notin {"RuntimeError: no audio", "RuntimeError: disabled"}

\* a page with download anchors and no record was refused as 'no audio'
C6_Witness ==
  /\ sg.result = "RuntimeError: no audio"
  /\ sg.has_downloads

\* C7: an error of one download (a status other than 200, an HTTP or
\* transport error, an error of writing the file) is a Failed outcome of that
\* record: it adds one to failed_count and to consecutive_failures, snag does
\* not raise after a download was attempted, and a run the cutoff does not
\* stop attempts every record.  A page that cannot be fetched makes snag
\* raise with no record processed.
C7_SoundErrorsAreOutcomes ==
  /\ sg.failed_count = CountOf(Outcomes, "Failed")
  /\ sg.snagged_count = CountOf(Outcomes, "Saved")
  /\ sg.existing_count = CountOf(Outcomes, "Skipped")
  /\ hist.last.status \notin {"none", "200"} => LastOutcome = "Failed"
  /\ LastOutcome = "Failed" => sg.consecutive_failures >= 1
  /\ Len(Outcomes) > 0 => (sg.pc \in {"loop", "returned"} /\ sg.result \in {"none", "True"})
  /\ (sg.pc = "returned" /\ ~sg.stopped) => Len(Outcomes) = Len(sg.sound_items)
  /\ sg.result = "RuntimeError: page" =>
       /\ sg.pc = "raised"
       /\ Outcomes = <<>> /\ hist.downloadReqs = 0
       /\ sg.sound_items = <<>>

\* a run went on after a failed write and after a failed request, and
\* returned with both counted
C7_Witness ==
  /\ sg.pc = "returned" /\ ~sg.stopped
  /\ sg.failed_count = 2
  /\ \E f \in files[Board] : f.data[Len(f.data)] = "partial"
  /\ hist.last.status = "URLError"

----------------------------------------------------------------------------
(* The search: claims C9 and C10, checked under SpecSearch.                *)

\* the analysed boards that were download-capable and within the filters
QualifiedCount == Cardinality(sh.qualified)
ReturnedNames == [k \in DOMAIN sb.ret |-> sb.ret[k].board_name]

\* C9 as it is stated: once the number of analysed boards that are
\* download-capable and pass the filters has reached max_results, no step
\* requests a board page or a search result page, and the returned list has
\* no more than max_results entries.  A search with max_results of 0 or less
\* has reached the number before its first step, and requests result page 1.
C9_NoRequestOnceReached ==
  /\ [][QualifiedCount >= sb.max_results
          => sh'.boardReqs = sh.boardReqs /\ sh'.searchReqs = sh.searchReqs]_vars
  /\ [](sb.pc = "returned" => Len(sb.ret) <= sb.max_results)

\* C9, amended: once the number of analysed boards that are download-capable
\* and pass the filters has reached max_results, no step requests a board
\* page, and no step requests a search result page other than page 1 as the
\* first request of the search; the returned list has no more than
\* max(max_results, 0) entries.
C9_NoRequestOnceReachedButFirstPage ==
  /\ [][QualifiedCount >= sb.max_results
          => /\ sh'.boardReqs = sh.boardReqs
             /\ \/ sh'.searchReqs = sh.searchReqs
                \/ sh.searchReqs = <<>> /\ sh'.searchReqs = <<1>>]_vars
  /\ [](sb.pc = "returned" => Len(sb.ret) <= Max(sb.max_results, 0))

\* a search that has returned max_results boards with a candidate of the
\* last result page left unrequested
C9_Witness ==
  /\ sb.pc = "returned"
  /\ sb.max_results >= 1
  /\ QualifiedCount = sb.max_results
  /\ Len(sb.ret) = sb.max_results
  /\ sb.k < Len(sb.page_boards)
  /\ sb.page_boards[sb.k + 1] \notin Chars(sh.boardReqs)

\* a search with max_results = 0 that has requested result page 1 only
C9_WitnessZero ==
  /\ sb.pc = "returned"
  /\ sb.max_results = 0
  /\ sh.searchReqs = <<1>> /\ sh.boardReqs = <<>>
  /\ sb.page_boards # <<>>

\* C10: the returned list holds exactly the analysed boards that were
\* download-capable and within the filters, none without downloads and none
\* whose analysis raised, each once, in non-increasing order of the parsed
\* views
C10_ReturnedList ==
  sb.pc = "returned" =>
    /\ Chars(ReturnedNames) = sh.qualified
    /\ sh.qualified \subseteq Chars(sh.boardReqs)
    /\ \A i, j \in DOMAIN sb.ret : i < j => ReturnedNames[i] # ReturnedNames[j]
    /\ \A k \in DOMAIN sb.ret :
         sb.ret[k].has_downloads /\ ReturnedNames[k] \notin sh.failed
    /\ \A i, j \in DOMAIN sb.ret :
         i < j => ViewsInt(sb.ret[i].views) >= ViewsInt(sb.ret[j].views)

\* two boards are returned, the one analysed first with fewer views in second
\* place, and a board without downloads that passed the filters is left out
C10_Witness ==
  /\ sb.pc = "returned"
  /\ Len(sb.ret) = 2
  /\ Len(sb.results) = 3
  /\ sb.ret[1].views_int > sb.ret[2].views_int
  /\ sb.results[1].board_name = sb.ret[2].board_name
  /\ \E k \in DOMAIN sb.results : ~sb.results[k].has_downloads

\* the views of a page as the filters are to read them: digits with commas
\* between them are a number, anything else and no text at all count as 0
FilterViews(text) ==
  IF text # <<>> /\ Chars(text) \subseteq (DigitCh \cup {","})
     /\ Chars(text) \cap DigitCh # {}
  THEN ToInt(SelectSeq(text, LAMBDA c : c \in DigitCh), 10)
  ELSE 0

PassesFilters(page, min_views, min_sounds) ==
  /\ (min_views = 0 \/ FilterViews(page.views) >= min_views)
  /\ (min_sounds = 0 \/ page.nsounds >= min_sounds)

\* a step that has analysed a board: its page was fetched and read
Analysed ==
  /\ Len(sh'.boardReqs) = Len(sh.boardReqs) + 1
  /\ sh'.served.name = sh'.boardReqs[Len(sh'.boardReqs)]

\* C11: the analysis of a board adds it to the results exactly when
\* (min_views = 0 or views >= min_views) and (min_sounds = 0 or the number of
\* sounds >= min_sounds), absent or unparsable views counting as 0; a board
\* that fails leaves the results and the count towards max_results as they
\* were and adds one to skipped_count exactly when it is download-capable; a
\* board that passes leaves skipped_count as it was
C11_Filters ==
  [][Analysed =>
       LET page == sh'.served.page
           passes == PassesFilters(page, sb.min_views, sb.min_sounds)
           capable == Len(page.anchors) > 0
       IN  /\ passes <=>
                /\ Len(sb'.results) = Len(sb.results) + 1
                /\ sb'.results[Len(sb'.results)].board_name = sh'.served.name
           /\ ~passes =>
                /\ sb'.results = sb.results
                /\ sb'.downloadable_count = sb.downloadable_count
                /\ sh'.qualified = sh.qualified
                /\ sb'.skipped_count =
                     sb.skipped_count + (IF capable THEN 1 ELSE 0)
           /\ passes =>
                /\ sb'.skipped_count = sb.skipped_count
                /\ sb'.downloadable_count =
                     sb.downloadable_count + (IF capable THEN 1 ELSE 0)]_vars

\* two download-capable boards were left out by min_views = 10, the one
\* analysed last for views that cannot be parsed
C11_Witness ==
  /\ sb.min_views = 10 /\ sb.min_sounds = 0
  /\ sb.skipped_count = 2
  /\ sb.results = <<>>
  /\ sh.served.page.views = <<"n", "/", "a">>
  /\ Len(sh.served.page.anchors) > 0

\* C12: the result pages are requested in the order 1, 2, 3, ... and at most
\* 10 of them; after a result page that yields no new board name, and after a
\* request of a result page that fails, nothing more is requested; and the
\* search returns, with the boards it has gathered
C12_Pagination ==
  /\ [](/\ sh.searchReqs = [k \in 1..Len(sh.searchReqs) |-> k]
        /\ Len(sh.searchReqs) <= 10)
  /\ [][sh.lastPage \in {"empty", "error"}
          => sh'.searchReqs = sh.searchReqs /\ sh'.boardReqs = sh.boardReqs]_vars
  /\ [](sb.pc = "returned" => Chars(ReturnedNames) = sh.qualified)
  /\ <>(sb.pc = "returned")

\* a search that has returned after 10 result pages, each with a new board
C12_Witness ==
  /\ sb.pc = "returned"
  /\ Len(sh.searchReqs) = 10
  /\ sh.lastPage = "boards"
  /\ sb.page = 11

\* a search that has returned a board after a second result page with no
\* new board
C12_WitnessEmpty ==
  /\ sb.pc = "returned"
  /\ sh.searchReqs = <<1, 2>>
  /\ sh.lastPage = "empty"
  /\ sb.ret # <<>>

\* C13: no board name is requested twice in a search, whether its request
\* failed or not, and no requested name is search, popular or new in any case
\* of letters
C13_Deduplicated ==
  /\ \A i, j \in DOMAIN sh.boardReqs : i < j => sh.boardReqs[i] # sh.boardReqs[j]
  /\ \A k \in DOMAIN sh.boardReqs :
       Lower(sh.boardReqs[k]) \notin
         {<<"s","e","a","r","c","h">>, <<"p","o","p","u","l","a","r">>,
          <<"n","e","w">>}

\* three result pages were requested; the first lists a board and the link
\* search, the second the same board again and the link New; the request of
\* that board failed, and each board was requested once
C13_Witness ==
  /\ sh.searchReqs = <<1, 2, 3>>
  /\ sh.boardReqs = <<B1, B2, B3>>
  /\ B2 \in sh.failed
  /\ \A l \in ListingChoices(1) : {B2, SearchLink} \subseteq Chars(l)
  /\ \A l \in ListingChoices(2) : {B2, NewLink} \subseteq Chars(l)

----------------------------------------------------------------------------
(* Search and download: claim C8, checked under SpecMain.                  *)

Attempted == mn.pc \in {"boards", "snag", "exit"} /\ mn.total_boards > 0
ResultNames == [k \in DOMAIN sb.ret |-> sb.ret[k].board_name]
CountIn(seq, S) == Cardinality({k \in DOMAIN seq : seq[k] \in S})

\* C8: the boards attempted so far are the first boards of the result list,
\* in its order, each once; when snag raises for a board the exception is
\* caught, the failed tally grows by one and the loop goes on; at the end
\* every board of the list was attempted and successful + failed is the
\* number of boards
C8_EveryBoardAttempted ==
  /\ [](Attempted =>
          /\ mn.attempts = Take(ResultNames, Len(mn.attempts))
          /\ mn.total_boards = Len(sb.ret)
          /\ mn.successful = CountIn(mn.outcomes, {"True"})
          /\ mn.failed = Len(mn.outcomes) - mn.successful
          /\ (mn.pc = "exit" /\ ~mn.interrupted =>
                /\ mn.exit = "0"
                /\ mn.attempts = ResultNames
                /\ Len(mn.outcomes) = mn.total_boards
                /\ mn.successful + mn.failed = mn.total_boards))
  /\ [][mn.pc = "snag" /\ sg.pc = "raised" /\ mn' # mn /\ ~mn'.interrupted
          => /\ mn'.failed = mn.failed + 1
             /\ mn'.successful = mn.successful
             /\ mn'.pc = "boards" /\ mn'.exit = "none"]_vars

\* the run has ended after two boards: snag raised for the first, and the
\* second was attempted and downloaded
C8_Witness ==
  /\ mn.pc = "exit" /\ mn.message = "summary"
  /\ mn.total_boards = 2
  /\ mn.outcomes[1] # "True" /\ mn.outcomes[2] = "True"
  /\ mn.failed = 1 /\ mn.successful = 1
  /\ \E f \in files[mn.attempts[2]] : f.data[2] = "full"

----------------------------------------------------------------------------
(* The filename normaliser: claims C14 and C15, checked under SpecNorm.    *)

\* C14: normalising the result of the normaliser again, with the same sound
\* id and title, gives the same name
C14_Idempotent ==
  nm.pc = "twice" => nm.twice = nm.once

\* the name os.path.splitext leaves before the extension
Stem(name) == SplitName(name)

SafeName(name) ==
  /\ name # <<>>
  /\ Chars(name) \cap {"<", ">", ":", "\"", "/", "\\", "|", "?", "*"} = {}
  /\ Chars(name) \cap ControlCh = {}
  /\ Upper(Stem(name)) \notin
       ({<<"C","O","N">>, <<"P","R","N">>, <<"A","U","X">>, <<"N","U","L">>}
        \cup {<<"C","O","M">> \o Digits(k) : k \in 1..9}
        \cup {<<"L","P","T">> \o Digits(k) : k \in 1..9})

\* C15: what the normaliser returns is not empty, holds none of the
\* characters <>:"/\|?* and no control character, and its stem in capitals is
\* not a reserved device name
C15_SafeName ==
  /\ nm.pc \in {"once", "twice"} => SafeName(nm.once)
  /\ nm.pc = "twice" => SafeName(nm.twice)

\* a reserved device name with an extension was given and got the underscore
C15_Witness ==
  /\ nm.pc = "once"
  /\ nm.raw_filename = <<"c","o","n",".","m","p","3">>
  /\ nm.once = <<"_","C","o","n",".","m","p","3">>

\* a raw name of an invalid and a control character only
C15_WitnessInvalid ==
  /\ nm.pc = "once"
  /\ nm.raw_filename = <<"<", "^A">>
  /\ nm.once = <<"-">>

----------------------------------------------------------------------------
(* The markup extractor: claim C16, checked under Spec.                    *)

\* C16: for a page on which the capability check counts download anchors and
\* the primary pattern finds no block, the extraction returns one record for
\* each anchor, in the order of the page, with an empty title
C16_FallbackPerAnchor ==
  (sg.pc \notin {"idle", "start", "fetched"}
     /\ Len(sg.html.anchors) > 0 /\ sg.html.items = <<>>) =>
    /\ sg.has_downloads /\ sg.download_count = Len(sg.html.anchors)
    /\ sg.sound_items =
         [k \in DOMAIN sg.html.anchors |-> <<sg.html.anchors[k].id, <<>>>>]

----------------------------------------------------------------------------
(* Interrupts, the download location, failed downloads and the outcomes of *)
(* snag: claims C17 to C20.                                                *)

\* C17: a run that KeyboardInterrupt has ended was ended by an except clause
\* of main, with the message of the cancellation and exit code 1
C17_InterruptCaught ==
  mn.interrupted => mn.exit = "1" /\ mn.message = "cancelled"

NoRequestYet ==
  /\ sh.searchReqs = <<>> /\ sh.boardReqs = <<>>
  /\ hist.pageReqs = 0 /\ hist.downloadReqs = 0

\* C18: when the download root cannot be made, and when the directory of a
\* board cannot be made in it, the error comes before any request of a board
\* page or a sound, and it ends the run with code 1
C18_LocationErrorBeforeRequests ==
  /\ mn.message = "root error" => NoRequestYet /\ mn.exit = "1"
  /\ sg.result = "OSError" =>
       /\ hist.pageReqs = 0 /\ hist.downloadReqs = 0
       /\ mn.pc = "exit" => mn.exit = "1"

\* C19: after a download that ended as Failed there is no file under the final
\* name of the sound in the directory of the board (had the file been there
\* before, the sound would have been Skipped)
C19_FailedLeavesNoFile ==
  (sg.pc \in {"loop", "returned"} /\ LastOutcome = "Failed"
     /\ hist.last.name # <<>>) =>
    hist.last.name \notin FileNames(files[Board])

\* the errors snag raises
SnagErrors ==
  {"RuntimeError: page", "RuntimeError: no audio", "RuntimeError: disabled",
   "OSError"}

\* snag raises one of its four errors or returns True, and it returns True
\* once a download was requested, also after the cutoff with nothing saved; in
\* search-and-download mode a return counts as successful
C20_SnagOutcomes ==
  /\ sg.pc = "raised" => sg.result \in SnagErrors /\ hist.downloadReqs = 0
  /\ sg.pc = "returned" => sg.result = "True"
  /\ mn.mode = "search_and_download" =>
       mn.successful = CountIn(mn.outcomes, {"True"})

\* C20: snag raises one of its four errors or returns True, also after the
\* cutoff with nothing saved; a run of snag that returned counts as successful
\* in search-and-download mode, and ends single-board mode with exit code 0
C20_ReturnIsSuccess ==
  /\ C20_SnagOutcomes
  /\ (mn.pc = "exit" /\ mn.mode \in {"board", "url", "interactive"}
        /\ sg.pc = "returned" /\ ~mn.interrupted) => mn.exit = "0"

\* a run of one board that the cutoff stopped with nothing saved has ended
\* with code 0
C20_WitnessCutoff ==
  /\ mn.pc = "exit" /\ mn.mode = "url" /\ mn.exit = "0"
  /\ sg.pc = "returned" /\ sg.stopped /\ sg.snagged_count = 0

====
